---------------------------- MODULE Spec2Model ----------------------------
(***************************************************************************)
(* Ship Ship Hooray: the shipping-rate handler (POST /rates), the          *)
(* pre-order status resolver with its Redis cache, the product-update      *)
(* webhook and the configuration endpoint of src/server.js.                *)
(*                                                                         *)
(* src/server.js holds two variants of the server: lines 1-766 resolve a   *)
(* variant in two hops (Shopify variant lookup, then the PreProduct API),  *)
(* lines 768-1267 resolve all uncached variants with one GraphQL query.    *)
(* The variable `strategy` says which of the two is running.               *)
(***************************************************************************)
EXTENDS Integers, Sequences, FiniteSets, TLC

VARIABLES
    strategy,    \* "twohop" (lines 1-766) or "batch" (lines 768-1267)
    appConfig,   \* the process-wide configuration object
    cache,       \* Redis: variant id -> stored string, or NoEntry
    pc,          \* where the rate request in flight stands
    items,       \* rate.items of the request in flight
    rv,          \* locals of getVariantPreOrderStatus
    resp,        \* the HTTP response of the rate request
    gh,          \* history of the request in flight (read by the properties only)
    clr,         \* the POST /cache/clear request in flight
    hook,        \* the POST /webhook/product-update request in flight
    adm,         \* the request to the admin interface being handled
    obs          \* history across requests (read by the properties only)

vars == <<strategy, appConfig, cache, pc, items, rv, resp, gh, clr, hook, adm, obs>>

-----------------------------------------------------------------------------
(* Bounds of the model *)

\* the longest items list of a rate request
MaxItems == 2
\* the longest nodes list of a GraphQL response
MaxNodes == 2
\* the most POST /config requests of a run whose updates are logged
MaxPosts == 3
\* the longest time a run lets pass, in steps of TickSeconds
MaxTicks == 3
\* the steps of time that make up the lifetime of a cache entry
TicksPerTtl == 2

-----------------------------------------------------------------------------
(* JavaScript values *)

Undefined == "undefined"

\* Number.prototype.toString for an integer: decimal digits, "-" for a negative one
Digit(d) == CASE d = 0 -> "0" [] d = 1 -> "1" [] d = 2 -> "2" [] d = 3 -> "3"
              [] d = 4 -> "4" [] d = 5 -> "5" [] d = 6 -> "6" [] d = 7 -> "7"
              [] d = 8 -> "8" [] d = 9 -> "9"

RECURSIVE NatToString(_)
NatToString(n) == IF n < 10 THEN Digit(n)
                  ELSE NatToString(n \div 10) \o Digit(n % 10)

NumToString(n) == IF n < 0 THEN "-" \o NatToString(0 - n) ELSE NatToString(n)

\* variant ids as the handler sees them: numbers in the request, strings as keys
VariantNums == {1, 2}
VariantStrs == {"1", "2", "3"}

\* String.prototype.toLowerCase, character by character
LowerChar(c) == CASE c = "G" -> "g" [] c = "I" -> "i" [] c = "F" -> "f"
                  [] c = "T" -> "t" [] c = "C" -> "c" [] c = "A" -> "a"
                  [] c = "R" -> "r" [] c = "D" -> "d" [] c = "S" -> "s"
                  [] OTHER -> c

ToLowerCase(s) == [i \in 1..Len(s) |-> LowerChar(s[i])]

\* String.prototype.includes
Includes(s, needle) ==
    \E i \in 1..(Len(s) - Len(needle) + 1) :
        SubSeq(s, i, i + Len(needle) - 1) = needle

GiftCardNeedle == <<"g", "i", "f", "t", " ", "c", "a", "r", "d">>


-----------------------------------------------------------------------------
(* Line items *)

\* item.title is a string or undefined
NoTitle == [defined |-> FALSE, chars |-> <<>>]
Title(cs) == [defined |-> TRUE, chars |-> cs]

TitleShirt == Title(<<"S", "h", "i", "r", "t">>)
TitleGiftUpper == Title(<<"A", " ", "G", "i", "f", "t", " ", "C", "A", "R", "D">>)

Item(v, p, q, ty, ti) ==
    [variant_id |-> v, hasVariantId |-> TRUE, price |-> p, quantity |-> q,
     product_type |-> ty, title |-> ti]

\* an item whose variant_id is undefined
ItemWithoutVariantId(p, q, ty, ti) == [Item(0, p, q, ty, ti) EXCEPT !.hasVariantId = FALSE]

\* item.product_type === 'Gift Card' || item.title?.toLowerCase().includes('gift card')
IsGiftCard(item) ==
    \/ item.product_type = "Gift Card"
    \/ /\ item.title.defined
       /\ Includes(ToLowerCase(item.title.chars), GiftCardNeedle)

\* no cart is taken for a cart of gift cards
IsGiftCardsOnlyNever(its) == FALSE

\* rate.items.some(...): the check with the wrong quantifier
IsGiftCardsOnlySome(its) == \E k \in 1..Len(its) : IsGiftCard(its[k])

\* rate.items.every(...)
IsGiftCardsOnly(its) == \A k \in 1..Len(its) : IsGiftCard(its[k])

\* item.variant_id.toString() throws a TypeError for an undefined variant_id
VariantIdThrows(its) == \E k \in 1..Len(its) : ~its[k].hasVariantId

\* rate.items.map(item => item.variant_id.toString())
VariantIdsOf(its) == [k \in 1..Len(its) |-> NumToString(its[k].variant_id)]

-----------------------------------------------------------------------------
(* Configuration *)

DefaultThreshold == 5000
DefaultFee == 500

DefaultConfig ==
    [threshold |-> DefaultThreshold,
     feeUnderThreshold |-> DefaultFee,
     labels |-> [rts |-> "Ships Now (In-Stock)", po |-> "Ships Later (Pre-Order)"],
     description |-> "Free over $50",
     killSwitch |-> FALSE,
     currency |-> "USD"]

\* the kill switch is never looked at
KillSwitchIgnored(cfg) == FALSE

\* if (appConfig.killSwitch)
KillSwitchOn(cfg) == cfg.killSwitch

\* appConfig.labels = labels: the labels object of the body replaces the
\* configuration's, a label the body leaves out becomes undefined
ApplyConfigReplacingLabels(cfg, body) ==
    [cfg EXCEPT
        !.threshold = IF body.hasThreshold THEN body.threshold ELSE @,
        !.feeUnderThreshold = IF body.hasFee THEN body.feeUnderThreshold ELSE @,
        !.labels = IF body.hasLabels
                   THEN [rts |-> IF body.labels.hasRts THEN body.labels.rts ELSE Undefined,
                         po |-> IF body.labels.hasPo THEN body.labels.po ELSE Undefined]
                   ELSE @,
        !.description = IF body.hasDescription THEN body.description ELSE @,
        !.killSwitch = IF body.hasKillSwitch THEN body.killSwitch ELSE @]

\* POST /config: a field of the body that is undefined leaves the configuration's
\* field alone; labels are merged key by key
ApplyConfig(cfg, body) ==
    [cfg EXCEPT
        !.threshold = IF body.hasThreshold THEN body.threshold ELSE @,
        !.feeUnderThreshold = IF body.hasFee THEN body.feeUnderThreshold ELSE @,
        !.labels = IF body.hasLabels
                   THEN [rts |-> IF body.labels.hasRts THEN body.labels.rts ELSE @.rts,
                         po |-> IF body.labels.hasPo THEN body.labels.po ELSE @.po]
                   ELSE @,
        !.description = IF body.hasDescription THEN body.description ELSE @,
        !.killSwitch = IF body.hasKillSwitch THEN body.killSwitch ELSE @]

-----------------------------------------------------------------------------
(* Rate computation: the synchronous tail of the POST /rates handler *)

NoResults == [v \in {} |-> FALSE]

\* Map.prototype.set
MapSet(m, k, v) == [x \in (DOMAIN m) \cup {k} |-> IF x = k THEN v ELSE m[x]]

\* variantStatuses.get(variantId) || false
IsPreOrder(results, variantId) ==
    IF variantId \in DOMAIN results THEN results[variantId] ELSE FALSE

\* the ready-to-ship subtotal grows whatever the status is
AddToBucketBoth(acc, isPreOrder, extended) ==
    IF isPreOrder
    THEN [rts |-> acc.rts + extended, po |-> acc.po + extended]
    ELSE [acc EXCEPT !.rts = @ + extended]

\* if (isPreOrder) preorderSubtotal += extended; else rtsSubtotal += extended
AddToBucket(acc, isPreOrder, extended) ==
    IF isPreOrder
    THEN [acc EXCEPT !.po = @ + extended]
    ELSE [acc EXCEPT !.rts = @ + extended]

RECURSIVE SubtotalsFrom(_, _, _, _)
SubtotalsFrom(its, results, k, acc) ==
    IF k > Len(its) THEN acc
    ELSE LET item == its[k]
             variantId == NumToString(item.variant_id)
             extended == item.price * item.quantity
         IN  SubtotalsFrom(its, results, k + 1,
                           AddToBucket(acc, IsPreOrder(results, variantId), extended))

\* rtsSubtotal and preorderSubtotal declared outside the handler: the loop starts
\* from what the remembered request left in them
SubtotalsCarriedOver(its, results) == SubtotalsFrom(its, results, 1, obs.memo.sub)

\* the loop over rate.items, from rtsSubtotal = 0 and preorderSubtotal = 0
Subtotals(its, results) == SubtotalsFrom(its, results, 1, [rts |-> 0, po |-> 0])

\* subtotal > threshold: a subtotal equal to the threshold still pays the fee
BucketPriceStrict(subtotal, cfg) ==
    IF subtotal > cfg.threshold THEN 0 ELSE cfg.feeUnderThreshold

\* subtotal >= appConfig.threshold ? 0 : appConfig.feeUnderThreshold
BucketPrice(subtotal, cfg) ==
    IF subtotal >= cfg.threshold THEN 0 ELSE cfg.feeUnderThreshold

\* subtotal >= 0: an empty bucket emits a quote too
BucketEmitsAlways(subtotal) == subtotal >= 0

\* if (rtsSubtotal > 0), if (preorderSubtotal > 0)
BucketEmits(subtotal) == subtotal > 0

RtsQuote(subtotal, cfg) ==
    [service_name |-> cfg.labels.rts,
     service_code |-> "RTS_STD",
     total_price |-> NumToString(BucketPrice(subtotal, cfg)),
     currency |-> cfg.currency,
     description |-> cfg.description]

PoQuote(subtotal, cfg) ==
    [service_name |-> cfg.labels.po,
     service_code |-> "PO_STD",
     total_price |-> NumToString(BucketPrice(subtotal, cfg)),
     currency |-> cfg.currency,
     description |-> cfg.description]

GiftCardQuote(cfg) ==
    [service_name |-> "Free Shipping",
     service_code |-> "GIFT_CARD_FREE",
     total_price |-> "0",
     currency |-> cfg.currency,
     description |-> "Gift cards ship free"]

\* the pre-order quote is pushed first
BuildRatesPoFirst(sub, cfg) ==
    (IF BucketEmits(sub.po) THEN <<PoQuote(sub.po, cfg)>> ELSE <<>>)
    \o (IF BucketEmits(sub.rts) THEN <<RtsQuote(sub.rts, cfg)>> ELSE <<>>)

\* const rates = []; rates.push(RTS quote); rates.push(PO quote)
BuildRates(sub, cfg) ==
    (IF BucketEmits(sub.rts) THEN <<RtsQuote(sub.rts, cfg)>> ELSE <<>>)
    \o (IF BucketEmits(sub.po) THEN <<PoQuote(sub.po, cfg)>> ELSE <<>>)

\* res.json(...) and res.status(...).json(...)
Response(status, hasRates, rates) ==
    [status |-> status, hasRates |-> hasRates, rates |-> rates]

NoResponse == Response(0, FALSE, <<>>)

\* res.status(400).json({ error: 'Invalid rate request format' })
BadRequest == Response(400, FALSE, <<>>)

\* the catch answers without a rates list
RateErrorNoRates == Response(500, FALSE, <<>>)

\* res.status(500).json({ error: 'Rate calculation failed', rates: [] })
RateError == Response(500, TRUE, <<>>)

-----------------------------------------------------------------------------
(* The status cache (Redis) *)

\* const CACHE_TTL = 24 * 60 * 60, in seconds
CACHE_TTL == 24 * 60 * 60

Entry(stored, ttl) == [value |-> stored, ttl |-> ttl]

\* redis.get answers null for a key that holds nothing
NoEntry == Entry("(nil)", 0)

\* a stored string that JSON.parse refuses
Unparsable == "{not json"

JSONStringify(b) == IF b THEN "true" ELSE "false"

Lookup(hit, value, threw) == [hit |-> hit, value |-> value, threw |-> threw]

\* no try/catch around the read: the error is thrown to the caller
GetCachedThrowing(entry, redisOk) ==
    IF ~redisOk \/ entry.value = Unparsable THEN Lookup(FALSE, FALSE, TRUE)
    ELSE IF entry = NoEntry THEN Lookup(FALSE, FALSE, FALSE)
    ELSE Lookup(TRUE, entry.value = "true", FALSE)

\* if (cached): a stored false is taken for a miss
GetCachedTruthy(entry, redisOk) ==
    IF ~redisOk \/ entry = NoEntry \/ entry.value = Unparsable
    THEN Lookup(FALSE, FALSE, FALSE)
    ELSE Lookup(entry.value = "true", entry.value = "true", FALSE)

\* getCachedVariantPreOrder, getCachedVariantMetafield: redis.get and JSON.parse
\* inside try; the catch logs and falls through to return null
GetCached(entry, redisOk) ==
    IF ~redisOk THEN Lookup(FALSE, FALSE, FALSE)
    ELSE IF entry = NoEntry THEN Lookup(FALSE, FALSE, FALSE)
    ELSE IF entry.value = Unparsable THEN Lookup(FALSE, FALSE, FALSE)
    ELSE Lookup(TRUE, entry.value = "true", FALSE)

\* Redis after the time `seconds` has passed: a key set with an expiry is gone
\* once its time to live is used up, a key without one stays
Expire(entry, seconds) ==
    IF entry.ttl = 0 THEN entry
    ELSE IF entry.ttl <= seconds THEN NoEntry
    ELSE Entry(entry.value, entry.ttl - seconds)

\* redis.set without an expiry
SetCachedNoExpiry(c, variantId, isPreOrder, redisOk) ==
    IF redisOk
    THEN [c EXCEPT ![variantId] = Entry(JSONStringify(isPreOrder), 0)]
    ELSE c

\* setCachedVariantPreOrder, setCachedVariantMetafield: redis.setEx inside try,
\* the catch only logs
SetCached(c, variantId, isPreOrder, redisOk) ==
    IF redisOk
    THEN [c EXCEPT ![variantId] = Entry(JSONStringify(isPreOrder), CACHE_TTL)]
    ELSE c

\* no try/catch around the write: its error is thrown to the caller
SetCachedRethrows(redisOk) == ~redisOk

\* whether setCachedVariantPreOrder / setCachedVariantMetafield throws: never, the
\* catch around redis.setEx only logs
SetCachedThrew(redisOk) == FALSE

\* redis.keys(prefix + '*')
Keys(c) == {k \in DOMAIN c : c[k] # NoEntry}

\* redis.del(keys)
Del(c, keys) == [k \in DOMAIN c |-> IF k \in keys THEN NoEntry ELSE c[k]]

-----------------------------------------------------------------------------
(* The external sources *)

\* GET /admin/api/2024-07/variants/:id.json
VariantReply(ok, hasProductId, productId) ==
    [ok |-> ok, hasProductId |-> hasProductId, product_id |-> productId]

NullProduct == "null"

\* the catch answers a product id: a failed lookup still names a product
GetProductIdFromVariantAssumed(reply) == IF reply.ok /\ reply.hasProductId THEN reply.product_id ELSE "p1"

\* getProductIdFromVariant: a failed call, a non-2xx status and a body without
\* variant.product_id all end in null (a missing product_id is undefined: falsy)
GetProductIdFromVariant(reply) ==
    IF reply.ok /\ reply.hasProductId THEN reply.product_id ELSE NullProduct

\* GET api.preproduct.io/api/v2/on_preorder/:productId
StatusReply(ok, hasFlag, flag) == [ok |-> ok, hasFlag |-> hasFlag, on_preorder |-> flag]

\* the catch answers true: a failed call counts as pre-order
FetchPreProductStatusDefaultTrue(reply) ==
    IF ~reply.ok THEN TRUE
    ELSE IF reply.hasFlag THEN reply.on_preorder ELSE FALSE

\* fetchPreProductStatus: data.on_preorder || false, and false from the catch
FetchPreProductStatus(reply) ==
    IF ~reply.ok THEN FALSE
    ELSE IF reply.hasFlag THEN reply.on_preorder ELSE FALSE

\* `gid://shopify/ProductVariant/${id}`
GidPrefix == "gid://shopify/ProductVariant/"
Gid(id) == <<GidPrefix, id>>

\* node.id.replace('gid://shopify/ProductVariant/', '')
StripGid(gid) == IF gid[1] = GidPrefix THEN gid[2] ELSE gid[1] \o gid[2]

NullMetafield == [present |-> FALSE, value |-> ""]
Metafield(v) == [present |-> TRUE, value |-> v]

\* a node of data.nodes: null, or an object with (or, malformed, without) an id
NullNode == [isNull |-> TRUE, hasId |-> FALSE, id |-> Gid(""), metafield |-> NullMetafield]
Node(id, mf) == [isNull |-> FALSE, hasId |-> TRUE, id |-> Gid(id), metafield |-> mf]

\* POST /admin/api/2024-07/graphql.json: thrown (network, non-2xx, bad JSON), or
\* the parsed body, with or without data.nodes
GqlReply(ok, hasNodes, nodes) == [ok |-> ok, hasNodes |-> hasNodes, nodes |-> nodes]

\* node.metafield ? node.metafield.value === 'true' : false
NodeIsPreOrder(node) ==
    IF node.metafield.present THEN node.metafield.value = "true" ELSE FALSE

-----------------------------------------------------------------------------
(* State of a rate request *)

Range(seq) == {seq[k] : k \in 1..Len(seq)}

Pend(variantId, isPreOrder) == [id |-> variantId, value |-> isPreOrder]
NoPend == Pend("", FALSE)

\* results, uncachedVariants / uncachedIds and the loop positions of
\* getVariantPreOrderStatus; pend is the cache write being awaited
InitRv ==
    [ids |-> <<>>, i |-> 0, results |-> NoResults, uncached |-> <<>>, j |-> 0,
     productId |-> NullProduct, pend |-> NoPend, nodes |-> <<>>]

\* What happened to the request so far:
\*   kill      the kill switch was on when the request was received
\*   malformed the body had no rate object or no items list
\*   returned  getVariantPreOrderStatus returned its map
\*   cfg, sub  the configuration read and the subtotals computed for the response
\*   seen      the configurations appConfig held between the receipt of the
\*             request and its answer
\*   hits      ids answered by the cache;  readErr  ids whose cache read failed
\*   had       ids whose key held the JSON of a boolean when Redis answered the
\*             read, with that boolean
\*   asked     ids an external call was made for
\*   queries   the id lists of the batch queries sent, oldest first
\*   lookups   the product-id lookups answered, oldest first: the variant, whether
\*             the answer carried a product id, and that id
\*   calls     the calls of the status service answered, oldest first: the
\*             product id and the variant they were made with
\*   okval     ids the external source gave a status for, with that status
\*   failed    ids the external source gave no status for
\*   nodeIds   ids of the nodes read from a GraphQL response
\*   reply     the data.nodes of the GraphQL response
\*   threw     the batch query, or the reading of its response, threw
\*   wrote     ids a cache write was made for
\*   writeErr  ids whose last cache write failed
\*   inval     ids deleted by POST /cache/clear since their last write
\*   old       ids whose status was read from the external source before a
\*             product-update notification that lists them was received
InitGh ==
    [kill |-> FALSE, malformed |-> FALSE, returned |-> FALSE, cfg |-> DefaultConfig,
     seen |-> {},
     sub |-> [rts |-> 0, po |-> 0],
     hits |-> {}, readErr |-> {}, had |-> NoResults, asked |-> {}, queries |-> <<>>, lookups |-> <<>>, calls |-> <<>>, okval |-> NoResults, failed |-> {},
     nodeIds |-> {}, reply |-> <<>>, threw |-> FALSE, wrote |-> {}, writeErr |-> {}, inval |-> {},
     old |-> {}]

Resolved(g, variantId, value) ==
    [g EXCEPT !.okval = MapSet(@, variantId, value), !.failed = @ \ {variantId},
              !.old = @ \ {variantId}]

Notified(g, ids) == [g EXCEPT !.old = @ \cup (ids \cap DOMAIN g.okval)]

Unresolved(g, ids) ==
    [g EXCEPT !.okval = [x \in (DOMAIN @) \ ids |-> @[x]], !.failed = @ \cup ids,
              !.old = @ \ ids]

Written(g, variantId, redisOk) ==
    IF redisOk
    THEN [g EXCEPT !.wrote = @ \cup {variantId},
                   !.writeErr = @ \ {variantId}, !.inval = @ \ {variantId}]
    ELSE [g EXCEPT !.wrote = @ \cup {variantId}, !.writeErr = @ \cup {variantId}]

\* What happened across requests:
\*   now      the time that has passed, in ticks
\*   at, val  for each key, the time of its last write that went through (-1 if
\*            there was none) and the status written
\*   logging  whether the POST /config bodies are logged
\*   log      the bodies of the POST /config requests, oldest first
\*   got      what the last GET /config answered, and after how many updates
\*   remembering  whether a computed rate response may be remembered
\*   memo     a rate response remembered with the items, the statuses of their
\*            variants, the configuration and the subtotals it was computed from
Got(cfg, at) == [cfg |-> cfg, at |-> at]

Memo(set, its, statuses, cfg, sub, rates) ==
    [set |-> set, items |-> its, statuses |-> statuses, cfg |-> cfg, sub |-> sub,
     rates |-> rates]

InitObs(logging) ==
    [now |-> 0, at |-> [k \in VariantStrs |-> -1], val |-> [k \in VariantStrs |-> FALSE],
     logging |-> logging, log |-> <<>>, got |-> Got(DefaultConfig, -1),
     remembering |-> FALSE,
     memo |-> Memo(FALSE, <<>>, NoResults, DefaultConfig, [rts |-> 0, po |-> 0], <<>>)]

InitObsRemembering == [InitObs(FALSE) EXCEPT !.remembering = TRUE]

\* the statuses the resolver returned for the variants of the request
StatusesOf(r) == [id \in Range(r.ids) \cap DOMAIN r.results |-> r.results[id]]

\* the first response that is remembered stays the remembered one
Remembered(o, its, r, g, response) ==
    IF o.remembering /\ ~o.memo.set /\ g.returned
    THEN [o EXCEPT !.memo = Memo(TRUE, its, StatusesOf(r), g.cfg, g.sub, response.rates)]
    ELSE o

\* a write that went through starts the key's time again
Stamp(o, variantId, isPreOrder, redisOk) ==
    IF redisOk THEN [o EXCEPT !.at[variantId] = o.now, !.val[variantId] = isPreOrder]
    ELSE o

Posted(o, body) == IF o.logging THEN [o EXCEPT !.log = Append(@, body)] ELSE o

\* the handler answers before it calls the resolver
Answer(r, g) ==
    /\ pc' = "done"
    /\ rv' = InitRv
    /\ resp' = r
    /\ gh' = g

\* the handler is suspended in an await
Continue(at, r, g) ==
    /\ pc' = at
    /\ rv' = r
    /\ resp' = resp
    /\ gh' = g

\* getVariantPreOrderStatus returns r.results; the handler computes the subtotals,
\* builds the rates and answers, all without another await
Return(r, g) ==
    LET sub == Subtotals(items, r.results)
    IN  /\ pc' = "done"
        /\ rv' = r
        /\ resp' = Response(200, TRUE, BuildRates(sub, appConfig))
        /\ gh' = [g EXCEPT !.returned = TRUE, !.cfg = appConfig, !.sub = sub]

\* an exception reaches the handler's catch:
\* res.status(500).json({ error: 'Rate calculation failed', rates: [] })
Threw(r, g) ==
    /\ pc' = "done"
    /\ rv' = r
    /\ resp' = RateError
    /\ gh' = g

-----------------------------------------------------------------------------
(* POST /rates *)

RateBody(hasRate, hasItems, its) == [hasRate |-> hasRate, hasItems |-> hasItems, items |-> its]

\* only the rate object is looked for
IsMalformedNoRate(body) == ~body.hasRate

\* if (!rate || !rate.items)
IsMalformed(body) == ~body.hasRate \/ ~body.hasItems

\* the length of the list is not looked at
IsEmptyCartNever(its) == FALSE

\* if (rate.items.length === 0)
IsEmptyCart(its) == Len(its) = 0

\* the handler up to its first await
RatesReceive(body) ==
    /\ pc = "idle"
    /\ items' = body.items
    /\ LET g == [InitGh EXCEPT !.kill = appConfig.killSwitch, !.cfg = appConfig,
                               !.seen = {appConfig},
                               !.malformed = ~body.hasRate \/ ~body.hasItems]
       IN  IF KillSwitchOn(appConfig)
           THEN Answer(Response(200, TRUE, <<>>), g)
           ELSE IF IsMalformed(body)
           THEN Answer(BadRequest, g)
           ELSE IF IsEmptyCart(body.items)
           THEN Answer(Response(200, TRUE, <<>>), g)
           ELSE IF IsGiftCardsOnly(body.items)
           THEN Answer(Response(200, TRUE, <<GiftCardQuote(appConfig)>>), g)
           ELSE IF VariantIdThrows(body.items)
           THEN Threw(InitRv, g)
           ELSE Continue("cacheGet",
                         [InitRv EXCEPT !.ids = VariantIdsOf(body.items), !.i = 1],
                         g)
    /\ UNCHANGED <<adm, strategy, appConfig, cache, clr, hook, obs>>

\* the batch query is sent whatever the partition gave
HasUncachedAlways(uncached) == TRUE

\* if (uncachedIds.length > 0)
HasUncached(uncached) == Len(uncached) > 0

\* fetchVariantMetafields(uncachedIds) is called: one POST carrying the ids
Queried(g, uncached) == [g EXCEPT !.queries = Append(@, uncached)]

\* "Check cache first": one redis.get of the loop over variantIds answers
CacheGet(redisOk) ==
    /\ pc = "cacheGet"
    /\ LET variantId == rv.ids[rv.i]
           got == GetCached(cache[variantId], redisOk)
           readFailed == ~redisOk \/ cache[variantId].value = Unparsable
           r == [rv EXCEPT
                    !.results = IF got.hit THEN MapSet(@, variantId, got.value) ELSE @,
                    !.uncached = IF got.hit THEN @ ELSE Append(@, variantId),
                    !.i = @ + 1]
           g == [gh EXCEPT
                    !.hits = IF got.hit THEN @ \cup {variantId} ELSE @,
                    !.had = IF redisOk /\ cache[variantId].value \in {"true", "false"}
                            THEN MapSet(@, variantId, cache[variantId].value = "true")
                            ELSE @,
                    !.readErr = IF readFailed THEN @ \cup {variantId} ELSE @]
       IN  IF got.threw THEN Threw(r, g)
           ELSE IF rv.i < Len(rv.ids) THEN Continue("cacheGet", r, g)
           ELSE IF strategy = "twohop"
           THEN IF r.uncached = <<>> THEN Return(r, g)
                ELSE Continue("variantFetch", [r EXCEPT !.j = 1], g)
           ELSE IF HasUncached(r.uncached)
           THEN Continue("gqlFetch", r, Queried(g, r.uncached))
           ELSE Return(r, g)
    /\ UNCHANGED <<adm, strategy, appConfig, cache, items, clr, hook, obs>>

(* The two-hop resolver, src/server.js lines 215-239 *)

\* the fallback leaves the map alone
FallbackResultsMissing(results, variantId) == results

\* results.set(variantId, false) when there is no product id
FallbackResults(results, variantId) == MapSet(results, variantId, FALSE)

LookedUp(variantId, reply) ==
    [variantId |-> variantId, found |-> reply.ok /\ reply.hasProductId,
     productId |-> reply.product_id]

StatusCall(productId, variantId) == [productId |-> productId, variantId |-> variantId]

\* getProductIdFromVariant(variantId) answers
VariantFetch(reply) ==
    /\ pc = "variantFetch"
    /\ LET variantId == rv.uncached[rv.j]
           productId == GetProductIdFromVariant(reply)
           g == [gh EXCEPT !.asked = @ \cup {variantId},
                           !.lookups = Append(@, LookedUp(variantId, reply))]
       IN  IF productId # NullProduct
           THEN Continue("statusFetch", [rv EXCEPT !.productId = productId], g)
           ELSE Continue("cacheSet",
                         [rv EXCEPT !.results = FallbackResults(@, variantId),
                                    !.pend = Pend(variantId, FALSE)],
                         Unresolved(g, {variantId}))
    /\ UNCHANGED <<adm, strategy, appConfig, cache, items, clr, hook, obs>>

\* fetchPreProductStatus(productId, variantId) answers
StatusFetch(reply) ==
    /\ pc = "statusFetch"
    /\ LET variantId == rv.uncached[rv.j]
           isPreOrder == FetchPreProductStatus(reply)
           r == [rv EXCEPT !.results = MapSet(@, variantId, isPreOrder),
                           !.pend = Pend(variantId, isPreOrder)]
           g == [gh EXCEPT !.calls = Append(@, StatusCall(rv.productId, variantId))]
       IN  Continue("cacheSet", r,
                    IF reply.ok /\ reply.hasFlag
                    THEN Resolved(g, variantId, isPreOrder)
                    ELSE Unresolved(g, {variantId}))
    /\ UNCHANGED <<adm, strategy, appConfig, cache, items, clr, hook, obs>>

\* setCachedVariantPreOrder answers; the loop goes to the next uncached variant
CacheSet(redisOk) ==
    /\ pc = "cacheSet"
    /\ cache' = SetCached(cache, rv.pend.id, rv.pend.value, redisOk)
    /\ LET r == [rv EXCEPT
                    \* the catch of the loop body: results.set(variantId, false)
                    !.results = IF SetCachedThrew(redisOk)
                                THEN MapSet(@, rv.pend.id, FALSE) ELSE @,
                    !.pend = NoPend, !.productId = NullProduct, !.j = @ + 1]
           g == Written(gh, rv.pend.id, redisOk)
       IN  IF rv.j < Len(rv.uncached)
           THEN Continue("variantFetch", r, g)
           ELSE Return(r, g)
    /\ obs' = Stamp(obs, rv.pend.id, rv.pend.value, redisOk)
    /\ UNCHANGED <<adm, strategy, appConfig, items, clr, hook>>

(* The batch resolver, src/server.js lines 921-952 *)

RECURSIVE SkipNull(_)
\* if (node) { ... }: a null node is passed over
SkipNull(nodes) ==
    IF nodes = <<>> THEN <<>>
    ELSE IF Head(nodes).isNull THEN SkipNull(Tail(nodes))
    ELSE nodes

RECURSIVE AllFalse(_, _, _)
\* the catch: for (const variantId of uncachedIds) results.set(variantId, false)
AllFalse(results, uncached, k) ==
    IF k > Len(uncached) THEN results
    ELSE AllFalse(MapSet(results, uncached[k], FALSE), uncached, k + 1)

RECURSIVE NextMissing(_, _, _)
\* if (!results.has(variantId)): the next uncached id from position k on that has
\* no entry yet, or 0
NextMissing(results, uncached, k) ==
    IF k > Len(uncached) THEN 0
    ELSE IF uncached[k] \notin DOMAIN results THEN k
    ELSE NextMissing(results, uncached, k + 1)

\* the catch of the batch branch: every uncached id is set to false, the ids of
\* the nodes already read included, and nothing is written to the cache
Caught(r, g) ==
    Return([r EXCEPT !.results = AllFalse(@, r.uncached, 1),
                     !.nodes = <<>>, !.pend = NoPend],
           [g EXCEPT !.failed = @ \cup (Range(r.uncached) \ DOMAIN g.okval),
                     !.threw = TRUE])

\* "Set false for any remaining uncached variants", from position k on
RestLoop(r, g, k) ==
    LET at == NextMissing(r.results, r.uncached, k)
    IN  IF at = 0 THEN Return([r EXCEPT !.j = 0], g)
        ELSE LET variantId == r.uncached[at]
             IN  Continue("cacheSetRest",
                          [r EXCEPT !.results = MapSet(@, variantId, FALSE),
                                    !.pend = Pend(variantId, FALSE),
                                    !.j = at + 1],
                          Unresolved(g, {variantId}))

\* for (const node of gqlData.data.nodes), over the nodes still to read
NodeLoop(r, g) ==
    LET nodes == SkipNull(r.nodes)
    IN  IF nodes = <<>> THEN RestLoop([r EXCEPT !.nodes = <<>>], g, 1)
        ELSE IF ~Head(nodes).hasId THEN Caught(r, g)
        ELSE LET variantId == StripGid(Head(nodes).id)
                 isPreOrder == NodeIsPreOrder(Head(nodes))
             IN  Continue("cacheSetNode",
                          [r EXCEPT !.results = MapSet(@, variantId, isPreOrder),
                                    !.pend = Pend(variantId, isPreOrder),
                                    !.nodes = Tail(nodes)],
                          [Resolved(g, variantId, isPreOrder)
                              EXCEPT !.nodeIds = @ \cup {variantId}])

\* fetchVariantMetafields(uncachedIds) answers
GqlFetch(reply) ==
    /\ pc = "gqlFetch"
    /\ LET g == [gh EXCEPT !.asked = @ \cup Range(rv.uncached)]
       IN  IF ~reply.ok THEN Caught(rv, g)
           ELSE IF reply.hasNodes
           THEN NodeLoop([rv EXCEPT !.nodes = reply.nodes], [g EXCEPT !.reply = reply.nodes])
           ELSE RestLoop(rv, g, 1)
    /\ UNCHANGED <<adm, strategy, appConfig, cache, items, clr, hook, obs>>

\* setCachedVariantMetafield of the node loop answers
CacheSetNode(redisOk) ==
    /\ pc = "cacheSetNode"
    /\ cache' = SetCached(cache, rv.pend.id, rv.pend.value, redisOk)
    /\ IF SetCachedThrew(redisOk)
       THEN Caught(rv, Written(gh, rv.pend.id, redisOk))
       ELSE NodeLoop([rv EXCEPT !.pend = NoPend], Written(gh, rv.pend.id, redisOk))
    /\ obs' = Stamp(obs, rv.pend.id, rv.pend.value, redisOk)
    /\ UNCHANGED <<adm, strategy, appConfig, items, clr, hook>>

\* setCachedVariantMetafield of the remaining-ids loop answers
CacheSetRest(redisOk) ==
    /\ pc = "cacheSetRest"
    /\ cache' = SetCached(cache, rv.pend.id, rv.pend.value, redisOk)
    /\ IF SetCachedThrew(redisOk)
       THEN Caught(rv, Written(gh, rv.pend.id, redisOk))
       ELSE RestLoop([rv EXCEPT !.pend = NoPend], Written(gh, rv.pend.id, redisOk), rv.j)
    /\ obs' = Stamp(obs, rv.pend.id, rv.pend.value, redisOk)
    /\ UNCHANGED <<adm, strategy, appConfig, items, clr, hook>>

\* the external server accepts the call and never answers: fetch is given no
\* timeout and no abort signal (lines 148, 171, 887), so its promise never settles
\* and the handler stays in its await
FetchSilent ==
    /\ pc \in {"variantFetch", "statusFetch", "gqlFetch"}
    /\ pc' = "pending"
    /\ UNCHANGED <<adm, strategy, appConfig, cache, items, rv, resp, gh, clr, hook, obs>>

\* the response has been sent; the next request can arrive
RatesFinish ==
    /\ pc = "done"
    /\ pc' = "idle"
    /\ items' = <<>>
    /\ rv' = InitRv
    /\ resp' = NoResponse
    /\ gh' = InitGh
    /\ obs' \in {obs, Remembered(obs, items, rv, gh, resp)}
    /\ UNCHANGED <<adm, strategy, appConfig, cache, clr, hook>>

-----------------------------------------------------------------------------
(* POST /config *)

ConfigBody(hasThreshold, threshold, hasFee, fee, hasKillSwitch, killSwitch) ==
    [hasThreshold |-> hasThreshold, threshold |-> threshold,
     hasFee |-> hasFee, feeUnderThreshold |-> fee,
     hasLabels |-> FALSE, labels |-> [hasRts |-> FALSE, rts |-> "", hasPo |-> FALSE, po |-> ""],
     hasDescription |-> FALSE, description |-> "",
     hasKillSwitch |-> hasKillSwitch, killSwitch |-> killSwitch]

\* a body with a labels object; hasRts, hasPo say which labels it carries
WithLabels(body, hasRts, rts, hasPo, po) ==
    [body EXCEPT !.hasLabels = TRUE,
                 !.labels = [hasRts |-> hasRts, rts |-> rts, hasPo |-> hasPo, po |-> po]]

WithDescription(body, description) ==
    [body EXCEPT !.hasDescription = TRUE, !.description = description]

\* app.post('/config'): the fields are assigned and the handler answers, with no
\* await in between
ConfigPost(body) ==
    /\ obs.logging => Len(obs.log) < MaxPosts
    /\ appConfig' = ApplyConfig(appConfig, body)
    /\ obs' = Posted(obs, body)
    /\ gh' = IF pc \in {"idle", "done"} THEN gh
             ELSE [gh EXCEPT !.seen = @ \cup {ApplyConfig(appConfig, body)}]
    /\ UNCHANGED <<adm, strategy, cache, pc, items, rv, resp, clr, hook>>

\* app.get('/config'): res.json(appConfig)
ConfigGet ==
    /\ obs' = [obs EXCEPT !.got = Got(appConfig, Len(obs.log))]
    /\ UNCHANGED <<adm, strategy, appConfig, cache, pc, items, rv, resp, gh, clr, hook>>

-----------------------------------------------------------------------------
(* Time: the expiry that redis.setEx asks Redis for *)

TickSeconds == CACHE_TTL \div TicksPerTtl

\* TickSeconds pass; nothing of the process runs
Tick ==
    /\ obs.now < MaxTicks
    /\ cache' = [k \in DOMAIN cache |-> Expire(cache[k], TickSeconds)]
    /\ obs' = [obs EXCEPT !.now = @ + 1]
    /\ UNCHANGED <<adm, strategy, appConfig, pc, items, rv, resp, gh, clr, hook>>

-----------------------------------------------------------------------------
(* POST /cache/clear *)

ClrIdle == [pc |-> "idle", keys |-> {}]

\* redis.keys(prefix + '*') answers with at least one key (with none, or when Redis
\* is not ready or throws, the handler answers and nothing changes)
ClearKeys ==
    /\ clr.pc = "idle"
    /\ Keys(cache) # {}
    /\ clr' = [pc |-> "del", keys |-> Keys(cache)]
    /\ UNCHANGED <<adm, strategy, appConfig, cache, pc, items, rv, resp, gh, hook, obs>>

\* redis.del(keys) answers
ClearDel(redisOk) ==
    /\ clr.pc = "del"
    /\ cache' = IF redisOk THEN Del(cache, clr.keys) ELSE cache
    /\ gh' = IF redisOk /\ pc # "idle"
             THEN [gh EXCEPT !.inval = @ \cup clr.keys]
             ELSE gh
    /\ clr' = ClrIdle
    /\ UNCHANGED <<adm, strategy, appConfig, pc, items, rv, resp, hook, obs>>

-----------------------------------------------------------------------------
(* POST /webhook/product-update *)

\* a product as the notification's JSON describes it: with or without a variants
\* array of objects with a numeric id
Product(hasVariants, variantNums) == [hasVariants |-> hasVariants, variants |-> variantNums]
NoProduct == Product(FALSE, <<>>)

\* a string: the JSON text of a product, or a text JSON.parse refuses
Text(isJson, product) == [isJson |-> isJson, product |-> product]
JsonText(product) == Text(TRUE, product)
NotJson == Text(FALSE, NoProduct)

\* req.body as the handler finds it: an object or an array of strings, parsed by
\* express.json() (app.use, lines 45 and 806), or a Buffer from express.raw()
JsObject(product) == [type |-> "object", product |-> product, elems |-> <<>>, raw |-> NotJson]
JsArray(elems) == [type |-> "array", product |-> NoProduct, elems |-> elems, raw |-> NotJson]

\* the request on the wire: its Content-Type, its body (the JSON of an object, of an
\* array of strings, or no JSON at all) and the state of its X-Shopify-Hmac-Sha256
\* header: "valid" (the HMAC of the body under the secret), "wrong" (another
\* digest of the same length), "short" (another length) or "missing"
HookReq(isJsonType, kind, product, elems, hmac) ==
    [isJsonType |-> isJsonType, kind |-> kind, product |-> product, elems |-> elems,
     hmac |-> hmac]

Parsed(rejected, body) == [rejected |-> rejected, body |-> body]

\* app.use(express.json()) runs before the route: it parses every body of type
\* application/json, refuses one that is no JSON, and leaves {} for another type;
\* the route's express.raw() then finds the body already parsed and passes
ExpressJson(req) ==
    IF ~req.isJsonType THEN Parsed(FALSE, JsObject(NoProduct))
    ELSE IF req.kind = "object" THEN Parsed(FALSE, JsObject(req.product))
    ELSE IF req.kind = "array" THEN Parsed(FALSE, JsArray(req.elems))
    ELSE Parsed(TRUE, JsObject(NoProduct))

Verdict(threw, ok) == [threw |-> threw, ok |-> ok]

\* every notification verifies
VerifyWebhookAlways(secret, body, hmac) == Verdict(FALSE, TRUE)

\* verifyWebhook: true without a secret; hmac.update(data, 'utf8') throws for data
\* that is no string and no Buffer; Buffer.from(undefined) throws for a missing
\* header and timingSafeEqual throws for digests of different lengths
VerifyWebhook(secret, body, hmac) ==
    IF ~secret THEN Verdict(FALSE, TRUE)
    ELSE IF body.type # "buffer" THEN Verdict(TRUE, FALSE)
    ELSE IF hmac \in {"missing", "short"} THEN Verdict(TRUE, FALSE)
    ELSE Verdict(FALSE, hmac = "valid")

\* body.toString(): "[object Object]" for an object, the elements joined by commas
\* for an array, the bytes for a Buffer
BodyToString(body) ==
    IF body.type = "buffer" THEN body.raw
    ELSE IF body.type = "array" /\ Len(body.elems) = 1 THEN body.elems[1]
    ELSE NotJson

\* JSON.parse
JSONParse(text) == [threw |-> ~text.isJson, value |-> text.product]

\* redis.keys(prefix + '*'): the key of every variant, listed or not
HookKeysAll(product) == <<"1", "2", "3">>

\* `${variant.id}` of the cache key
HookKeys(product) == [k \in 1..Len(product.variants) |-> NumToString(product.variants[k])]

\* hook: where the handler stands, the secret of the environment, the request, the
\* keys still to delete, the status answered, the keys a redis.del was made for and
\* those whose redis.del failed
HookIdle(secret) ==
    [pc |-> "idle", secret |-> secret,
     req |-> HookReq(FALSE, "none", NoProduct, <<>>, "missing"),
     todo |-> <<>>, status |-> 0, dels |-> {}, delErr |-> {}]

HookAnswer(h, status) == [h EXCEPT !.pc = "done", !.status = status, !.todo = <<>>]

\* the handler up to its first await; a body express.json() refuses goes to the
\* error middleware (lines 729-735), which answers 500
HookReceive(req) ==
    /\ hook.pc # "del"
    /\ LET h == [HookIdle(hook.secret) EXCEPT !.req = req]
           parsed == ExpressJson(req)
           verdict == VerifyWebhook(hook.secret, parsed.body, req.hmac)
           json == JSONParse(BodyToString(parsed.body))
           keys == HookKeys(json.value)
       IN  IF parsed.rejected THEN hook' = HookAnswer(h, 500) /\ gh' = gh
           ELSE IF verdict.threw THEN hook' = HookAnswer(h, 500) /\ gh' = gh
           ELSE IF ~verdict.ok THEN hook' = HookAnswer(h, 401) /\ gh' = gh
           ELSE IF json.threw THEN hook' = HookAnswer(h, 500) /\ gh' = gh
           ELSE IF ~json.value.hasVariants \/ keys = <<>>
           THEN hook' = HookAnswer(h, 200) /\ gh' = gh
           ELSE /\ hook' = [h EXCEPT !.pc = "del", !.todo = keys]
                /\ gh' = Notified(gh, Range(keys))
    /\ UNCHANGED <<adm, strategy, appConfig, cache, pc, items, rv, resp, clr, obs>>

\* one redis.del(cacheKey) of the loop answers; its error is logged and the loop
\* goes on
HookDel(redisOk) ==
    /\ hook.pc = "del"
    /\ LET key == Head(hook.todo)
           h == [hook EXCEPT
                    !.todo = Tail(@),
                    !.dels = @ \cup {key},
                    !.delErr = IF redisOk THEN @ \ {key} ELSE @ \cup {key}]
       IN  /\ cache' = IF redisOk THEN Del(cache, {key}) ELSE cache
           /\ hook' = IF Tail(hook.todo) = <<>> THEN HookAnswer(h, 200) ELSE h
    /\ UNCHANGED <<adm, strategy, appConfig, pc, items, rv, resp, gh, clr, obs>>

-----------------------------------------------------------------------------
(* The admin interface behind requireAuth (two-hop variant, lines 48-82) *)

PathHealth == <<"/", "h", "e", "a", "l", "t", "h">>
PathConfig == <<"/", "c", "o", "n", "f", "i", "g">>
PathCacheClear == <<"/", "c", "a", "c", "h", "e", "/", "c", "l", "e", "a", "r">>

publicPaths ==
    {<<"/", "r", "a", "t", "e", "s">>,
     <<"/", "w", "e", "b", "h", "o", "o", "k", "/">>,
     PathHealth,
     <<"/", "i", "n", "s", "t", "a", "l", "l">>,
     <<"/", "a", "u", "t", "h">>}

\* publicPaths.some(path => req.path.startsWith(path))
IsPublicPath(path) ==
    \E prefix \in publicPaths :
        Len(path) >= Len(prefix) /\ SubSeq(path, 1, Len(prefix)) = prefix

\* process.env.ADMIN_USERNAME || 'admin', process.env.ADMIN_PASSWORD ||
\* 'ship_ship_hooray_123', with neither set in the environment
adminUsername == <<"admin">>
adminPassword == <<"ship_ship_hooray_123">>

\* the Authorization header: absent, of another scheme, or 'Basic ' followed by the
\* base64 of a text, given here decoded as its pieces, each a word or a ":"
AuthHeader(present, basic, text) == [present |-> present, basic |-> basic, text |-> text]

RECURSIVE Split(_)
\* String.prototype.split(':'): the texts between the colons
Split(text) ==
    IF text = <<>> THEN << <<>> >>
    ELSE LET rest == Split(Tail(text))
         IN  IF Head(text) = ":" THEN << <<>> >> \o rest
             ELSE << <<Head(text)>> \o Head(rest) >> \o Tail(rest)

\* requireAuth: "next" or the status it answers with. credentials[1] is undefined
\* for a text without a colon
RequireAuth(path, auth) ==
    IF IsPublicPath(path) THEN "next"
    ELSE IF ~auth.present \/ ~auth.basic THEN "401"
    ELSE LET credentials == Split(auth.text)
             username == credentials[1]
             password == IF Len(credentials) >= 2 THEN credentials[2] ELSE <<Undefined>>
         IN  IF username = adminUsername /\ password = adminPassword
             THEN "next" ELSE "401"

AdmIdle ==
    [pc |-> "idle", status |-> 0,
     req |-> [method |-> "GET", path |-> PathHealth,
              auth |-> AuthHeader(FALSE, FALSE, <<>>),
              body |-> ConfigBody(FALSE, 0, FALSE, 0, FALSE, FALSE)]]

\* a request goes through requireAuth and, if it passes, to its route: POST
\* /config assigns the fields and answers; POST /cache/clear asks Redis for the
\* keys and, if there are any, goes on to delete them; GET /health answers
AdminRequest(req) ==
    /\ adm.pc = "idle"
    /\ (req.path = PathCacheClear) => clr.pc = "idle"
    /\ LET passed == RequireAuth(req.path, req.auth) = "next"
       IN  /\ adm' = [pc |-> "done", status |-> IF passed THEN 200 ELSE 401, req |-> req]
           /\ appConfig' = IF passed /\ req.method = "POST" /\ req.path = PathConfig
                           THEN ApplyConfig(appConfig, req.body) ELSE appConfig
           /\ clr' = IF passed /\ req.method = "POST" /\ req.path = PathCacheClear
                         /\ Keys(cache) # {}
                      THEN [pc |-> "del", keys |-> Keys(cache)] ELSE clr
           /\ gh' = IF passed /\ req.method = "POST" /\ req.path = PathConfig
                        /\ pc \notin {"idle", "done"}
                     THEN [gh EXCEPT !.seen = @ \cup {ApplyConfig(appConfig, req.body)}]
                     ELSE gh
    /\ UNCHANGED <<strategy, cache, pc, items, rv, resp, hook, obs>>

\* the response has been sent
AdminFinish ==
    /\ adm.pc = "done"
    /\ adm' = AdmIdle
    /\ UNCHANGED <<strategy, appConfig, cache, pc, items, rv, resp, gh, clr, hook, obs>>

-----------------------------------------------------------------------------
(* Inputs *)

SeqsUpTo(S, n) == UNION {[1..k -> S] : k \in 0..n}

\* line items of the rate specification: prices and quantities that put a bucket
\* at 0, under, at and over the threshold, and the ways an item is or is not a
\* gift card
RateItems ==
    {Item(1, 2500, 1, "Apparel", TitleShirt),
     Item(1, 2500, 2, "Apparel", TitleShirt),
     Item(1, 0, 1, "Apparel", TitleShirt),
     Item(2, 2500, 1, Undefined, NoTitle),
     Item(2, 2500, 1, "Gift Card", NoTitle),
     Item(1, 2500, 2, "Apparel", TitleGiftUpper),
     Item(2, 2500, 1, "gift card", Title(<<"G", "i", "f", "t", "-", "c", "a", "r", "d">>))}

RateBodies ==
    {RateBody(TRUE, TRUE, its) : its \in SeqsUpTo(RateItems, MaxItems)}
    \cup {RateBody(FALSE, FALSE, <<>>)}

RateConfigBodies ==
    {ConfigBody(FALSE, 0, FALSE, 0, TRUE, TRUE),
     ConfigBody(FALSE, 0, FALSE, 0, TRUE, FALSE),
     ConfigBody(TRUE, 2500, TRUE, 750, FALSE, FALSE),
     ConfigBody(TRUE, 5000, TRUE, 500, FALSE, FALSE)}

\* the answers of the two external services
VariantReplies ==
    {VariantReply(TRUE, TRUE, "p1"), VariantReply(TRUE, FALSE, NullProduct),
     VariantReply(FALSE, FALSE, NullProduct)}

StatusReplies ==
    {StatusReply(TRUE, TRUE, TRUE), StatusReply(TRUE, TRUE, FALSE),
     StatusReply(TRUE, FALSE, FALSE), StatusReply(FALSE, FALSE, FALSE)}

\* the answers of the variant lookup when the shop has two products
TwoHopVariantReplies ==
    {VariantReply(TRUE, TRUE, "p1"), VariantReply(TRUE, TRUE, "p2"),
     VariantReply(TRUE, FALSE, NullProduct), VariantReply(FALSE, FALSE, NullProduct)}

\* the answers the rate specification draws from: the variant is found and the
\* PreProduct API says true or false
FoundVariantReplies == {VariantReply(TRUE, TRUE, "p1")}
FlagStatusReplies == {StatusReply(TRUE, TRUE, TRUE), StatusReply(TRUE, TRUE, FALSE)}

\* a GraphQL answer as Shopify gives it: one node per id asked for, in order; the
\* ids of `pre` have the metafield 'true', the others are unknown to the shop (null)
TidyNodes(uncached, pre) ==
    [k \in 1..Len(uncached) |->
        IF uncached[k] \in pre THEN Node(uncached[k], Metafield("true")) ELSE NullNode]

TidyGqlReplies(uncached) ==
    {GqlReply(TRUE, TRUE, TidyNodes(uncached, pre)) : pre \in SUBSET Range(uncached)}

\* any GraphQL answer: nodes missing, null, without id, repeated, for ids not asked for
NodePool ==
    {NullNode,
     [isNull |-> FALSE, hasId |-> FALSE, id |-> Gid(""), metafield |-> NullMetafield],
     Node("1", Metafield("true")), Node("1", NullMetafield),
     Node("2", Metafield("false")), Node("3", Metafield("true"))}

AnyGqlReplies ==
    {GqlReply(TRUE, TRUE, ns) : ns \in SeqsUpTo(NodePool, MaxNodes)}
    \cup {GqlReply(TRUE, FALSE, <<>>), GqlReply(FALSE, FALSE, <<>>)}

\* line items of the resolver specification
ResolveItems == {Item(v, 2500, 1, "Apparel", TitleShirt) : v \in VariantNums}

ResolveBodies == {RateBody(TRUE, TRUE, its) : its \in SeqsUpTo(ResolveItems, MaxItems)}

\* rate requests at the edges: bodies without a rate object or without an items
\* list, and items without a variant_id, gift cards or not
EdgeItems ==
    {Item(1, 2500, 1, "Apparel", TitleShirt),
     Item(2, 2500, 1, "Gift Card", NoTitle),
     ItemWithoutVariantId(2500, 1, "Apparel", TitleShirt),
     ItemWithoutVariantId(2500, 1, "Gift Card", NoTitle)}

EdgeBodies ==
    {RateBody(TRUE, TRUE, its) : its \in SeqsUpTo(EdgeItems, MaxItems)}
    \cup {RateBody(FALSE, FALSE, <<>>), RateBody(TRUE, FALSE, <<>>)}

KillSwitchBodies ==
    {ConfigBody(FALSE, 0, FALSE, 0, TRUE, TRUE), ConfigBody(FALSE, 0, FALSE, 0, TRUE, FALSE)}

\* updates of the configuration: of several fields, of one label, of none
EmptyConfigBody == ConfigBody(FALSE, 0, FALSE, 0, FALSE, FALSE)

ConfigBodies ==
    {ConfigBody(TRUE, 3000, FALSE, 0, TRUE, TRUE),
     ConfigBody(TRUE, 0, FALSE, 0, TRUE, FALSE),
     WithLabels(ConfigBody(FALSE, 0, TRUE, 700, FALSE, FALSE), TRUE, "Now", FALSE, ""),
     WithDescription(WithLabels(EmptyConfigBody, FALSE, "", TRUE, "Later"), "Flat"),
     EmptyConfigBody}

ConfigRateBodies == {RateBody(TRUE, TRUE, <<Item(1, 2500, 1, "Apparel", TitleShirt)>>)}

\* rate requests that repeat, with subtotals below and at the threshold, and
\* updates of the threshold and of a label between them
RepeatBodies ==
    {RateBody(TRUE, TRUE, <<Item(1, 2500, 1, "Apparel", TitleShirt)>>),
     RateBody(TRUE, TRUE, <<Item(1, 2500, 1, "Apparel", TitleShirt),
                            Item(2, 2500, 2, "Apparel", TitleShirt)>>)}

RepeatConfigBodies ==
    {ConfigBody(TRUE, DefaultThreshold, FALSE, 0, FALSE, FALSE),
     WithLabels(ConfigBody(TRUE, 3000, FALSE, 0, FALSE, FALSE), TRUE, "Now", FALSE, "")}

\* updates that change the threshold and the kill switch together
SnapshotBodies ==
    {ConfigBody(TRUE, 2000, FALSE, 0, TRUE, TRUE),
     ConfigBody(TRUE, DefaultThreshold, FALSE, 0, TRUE, FALSE)}

\* Authorization headers: none, another scheme, and Basic with the admin's
\* credentials, a wrong password, a wrong user, no colon, no text, and the
\* admin's password followed by a colon and more
AuthHeaders ==
    {AuthHeader(FALSE, FALSE, <<>>), AuthHeader(TRUE, FALSE, <<>>)}
    \cup {AuthHeader(TRUE, TRUE, text) :
             text \in {<<"admin", ":", "ship_ship_hooray_123">>,
                       <<"admin", ":", "wrong">>,
                       <<"eve", ":", "ship_ship_hooray_123">>,
                       <<"admin">>,
                       <<>>,
                       <<"admin", ":", "ship_ship_hooray_123", ":", "x">>}}

AdminReqs ==
    {[method |-> "POST", path |-> PathConfig, auth |-> auth,
      body |-> ConfigBody(TRUE, 3000, FALSE, 0, TRUE, TRUE)] : auth \in AuthHeaders}
    \cup {[method |-> "POST", path |-> PathCacheClear, auth |-> auth,
           body |-> EmptyConfigBody] : auth \in AuthHeaders}
    \cup {[method |-> "GET", path |-> PathHealth, auth |-> auth,
           body |-> EmptyConfigBody] : auth \in AuthHeaders}

\* product-update notifications: the product as Shopify sends it, an array that
\* wraps a text, a body that is no JSON, a body of another Content-Type; under each
\* state of the HMAC header
HookProduct == Product(TRUE, <<1, 2>>)

HookReqs ==
    {HookReq(TRUE, "object", HookProduct, <<>>, hmac) :
        hmac \in {"valid", "wrong", "short", "missing"}}
    \cup {HookReq(TRUE, "array", NoProduct, <<JsonText(HookProduct)>>, hmac) :
        hmac \in {"valid", "wrong"}}
    \cup {HookReq(TRUE, "array", NoProduct, <<JsonText(Product(TRUE, <<1>>))>>, "valid"),
          HookReq(TRUE, "array", NoProduct, <<JsonText(Product(FALSE, <<>>))>>, "valid"),
          HookReq(TRUE, "array", NoProduct, <<NotJson>>, "valid"),
          HookReq(TRUE, "garbage", NoProduct, <<>>, "valid"),
          HookReq(FALSE, "object", HookProduct, <<>>, "valid")}

-----------------------------------------------------------------------------
(* Specifications *)

EmptyCache == [k \in VariantStrs |-> NoEntry]

Init ==
    /\ strategy \in {"twohop", "batch"}
    /\ appConfig = DefaultConfig
    /\ cache = EmptyCache
    /\ pc = "idle"
    /\ items = <<>>
    /\ rv = InitRv
    /\ resp = NoResponse
    /\ gh = InitGh
    /\ clr = ClrIdle
    /\ hook = HookIdle(TRUE)
    /\ adm = AdmIdle
    /\ obs = InitObs(FALSE)

\* rate requests of every shape against a configuration that changes
Next ==
    \/ \E body \in RateBodies : RatesReceive(body)
    \/ CacheGet(TRUE)
    \/ \E reply \in FoundVariantReplies : VariantFetch(reply)
    \/ \E reply \in FlagStatusReplies : StatusFetch(reply)
    \/ CacheSet(TRUE)
    \/ \E reply \in TidyGqlReplies(rv.uncached) : GqlFetch(reply)
    \/ CacheSetNode(TRUE)
    \/ CacheSetRest(TRUE)
    \/ RatesFinish
    \/ \E body \in RateConfigBodies : ConfigPost(body)

Spec == Init /\ [][Next]_vars

\* Redis may hold a string from elsewhere under a key when the server starts
InitResolve ==
    /\ strategy \in {"twohop", "batch"}
    /\ appConfig = DefaultConfig
    /\ cache \in {EmptyCache, [EmptyCache EXCEPT !["1"] = Entry(Unparsable, 0)]}
    /\ pc = "idle"
    /\ items = <<>>
    /\ rv = InitRv
    /\ resp = NoResponse
    /\ gh = InitGh
    /\ clr = ClrIdle
    /\ hook = HookIdle(TRUE)
    /\ adm = AdmIdle
    /\ obs = InitObs(FALSE)

\* the resolver against every answer of the cache and of the external sources
NextResolve ==
    \/ \E body \in ResolveBodies : RatesReceive(body)
    \/ \E ok \in BOOLEAN : CacheGet(ok)
    \/ \E reply \in VariantReplies : VariantFetch(reply)
    \/ \E reply \in StatusReplies : StatusFetch(reply)
    \/ \E ok \in BOOLEAN : CacheSet(ok)
    \/ \E reply \in AnyGqlReplies : GqlFetch(reply)
    \/ \E ok \in BOOLEAN : CacheSetNode(ok)
    \/ \E ok \in BOOLEAN : CacheSetRest(ok)
    \/ RatesFinish

SpecResolve == InitResolve /\ [][NextResolve]_vars

\* the resolver with POST /cache/clear running beside it
NextClear ==
    \/ \E body \in ResolveBodies : RatesReceive(body)
    \/ \E ok \in BOOLEAN : CacheGet(ok)
    \/ \E reply \in VariantReplies : VariantFetch(reply)
    \/ \E reply \in StatusReplies : StatusFetch(reply)
    \/ \E ok \in BOOLEAN : CacheSet(ok)
    \/ \E reply \in TidyGqlReplies(rv.uncached) : GqlFetch(reply)
    \/ \E ok \in BOOLEAN : CacheSetNode(ok)
    \/ \E ok \in BOOLEAN : CacheSetRest(ok)
    \/ RatesFinish
    \/ ClearKeys
    \/ \E ok \in BOOLEAN : ClearDel(ok)

SpecClear == InitResolve /\ [][NextClear]_vars

\* rate requests at the edges, with the kill switch going on and off
NextEdge ==
    \/ \E body \in EdgeBodies : RatesReceive(body)
    \/ \E ok \in BOOLEAN : CacheGet(ok)
    \/ \E reply \in FoundVariantReplies : VariantFetch(reply)
    \/ \E reply \in FlagStatusReplies : StatusFetch(reply)
    \/ \E ok \in BOOLEAN : CacheSet(ok)
    \/ \E reply \in TidyGqlReplies(rv.uncached) : GqlFetch(reply)
    \/ \E ok \in BOOLEAN : CacheSetNode(ok)
    \/ \E ok \in BOOLEAN : CacheSetRest(ok)
    \/ RatesFinish
    \/ \E body \in KillSwitchBodies : ConfigPost(body)

SpecEdge == Init /\ [][NextEdge]_vars

\* the resolver against external sources that answer, fail or stay silent; the
\* event loop runs every continuation that is ready
NextLive ==
    \/ \E body \in ResolveBodies : RatesReceive(body)
    \/ \E ok \in BOOLEAN : CacheGet(ok)
    \/ \E reply \in VariantReplies : VariantFetch(reply)
    \/ \E reply \in StatusReplies : StatusFetch(reply)
    \/ \E ok \in BOOLEAN : CacheSet(ok)
    \/ \E reply \in TidyGqlReplies(rv.uncached) \cup {GqlReply(FALSE, FALSE, <<>>)} :
          GqlFetch(reply)
    \/ \E ok \in BOOLEAN : CacheSetNode(ok)
    \/ \E ok \in BOOLEAN : CacheSetRest(ok)
    \/ RatesFinish
    \/ FetchSilent

SpecLive == Init /\ [][NextLive]_vars /\ WF_vars(NextLive)

\* the resolver while time passes, against sources that answer
NextTime ==
    \/ \E body \in ResolveBodies : RatesReceive(body)
    \/ \E ok \in BOOLEAN : CacheGet(ok)
    \/ \E reply \in FoundVariantReplies : VariantFetch(reply)
    \/ \E reply \in FlagStatusReplies : StatusFetch(reply)
    \/ \E ok \in BOOLEAN : CacheSet(ok)
    \/ \E reply \in TidyGqlReplies(rv.uncached) : GqlFetch(reply)
    \/ \E ok \in BOOLEAN : CacheSetNode(ok)
    \/ \E ok \in BOOLEAN : CacheSetRest(ok)
    \/ RatesFinish
    \/ Tick

SpecTime == Init /\ [][NextTime]_vars

\* the bodies of the POST /config requests are logged
InitConfig ==
    /\ strategy \in {"twohop", "batch"}
    /\ appConfig = DefaultConfig
    /\ cache = EmptyCache
    /\ pc = "idle"
    /\ items = <<>>
    /\ rv = InitRv
    /\ resp = NoResponse
    /\ gh = InitGh
    /\ clr = ClrIdle
    /\ hook = HookIdle(TRUE)
    /\ adm = AdmIdle
    /\ obs = InitObs(TRUE)

\* the configuration read and updated, between the steps of rate requests
NextConfig ==
    \/ \E body \in ConfigBodies : ConfigPost(body)
    \/ ConfigGet
    \/ \E body \in ConfigRateBodies : RatesReceive(body)
    \/ \E ok \in BOOLEAN : CacheGet(ok)
    \/ \E reply \in FoundVariantReplies : VariantFetch(reply)
    \/ \E reply \in FlagStatusReplies : StatusFetch(reply)
    \/ CacheSet(TRUE)
    \/ \E reply \in TidyGqlReplies(rv.uncached) : GqlFetch(reply)
    \/ CacheSetNode(TRUE)
    \/ CacheSetRest(TRUE)
    \/ RatesFinish

SpecConfig == InitConfig /\ [][NextConfig]_vars

\* a computed rate response may be remembered
InitRepeat ==
    /\ strategy \in {"twohop", "batch"}
    /\ appConfig = DefaultConfig
    /\ cache = EmptyCache
    /\ pc = "idle"
    /\ items = <<>>
    /\ rv = InitRv
    /\ resp = NoResponse
    /\ gh = InitGh
    /\ clr = ClrIdle
    /\ hook = HookIdle(TRUE)
    /\ adm = AdmIdle
    /\ obs = InitObsRemembering

\* rate requests one after the other, the configuration updated between their steps
NextRepeat ==
    \/ \E body \in RepeatBodies : RatesReceive(body)
    \/ \E ok \in BOOLEAN : CacheGet(ok)
    \/ \E reply \in FoundVariantReplies : VariantFetch(reply)
    \/ \E reply \in FlagStatusReplies : StatusFetch(reply)
    \/ CacheSet(TRUE)
    \/ \E reply \in TidyGqlReplies(rv.uncached) : GqlFetch(reply)
    \/ CacheSetNode(TRUE)
    \/ CacheSetRest(TRUE)
    \/ RatesFinish
    \/ \E body \in RepeatConfigBodies : ConfigPost(body)

SpecRepeat == InitRepeat /\ [][NextRepeat]_vars

\* the two-hop variant of the server
InitTwoHop ==
    /\ strategy = "twohop"
    /\ appConfig = DefaultConfig
    /\ cache = EmptyCache
    /\ pc = "idle"
    /\ items = <<>>
    /\ rv = InitRv
    /\ resp = NoResponse
    /\ gh = InitGh
    /\ clr = ClrIdle
    /\ hook = HookIdle(TRUE)
    /\ adm = AdmIdle
    /\ obs = InitObs(FALSE)

NextTwoHop ==
    \/ \E body \in ResolveBodies : RatesReceive(body)
    \/ \E ok \in BOOLEAN : CacheGet(ok)
    \/ \E reply \in TwoHopVariantReplies : VariantFetch(reply)
    \/ \E reply \in StatusReplies : StatusFetch(reply)
    \/ \E ok \in BOOLEAN : CacheSet(ok)
    \/ RatesFinish

SpecTwoHop == InitTwoHop /\ [][NextTwoHop]_vars

\* a rate request while the threshold and the kill switch are updated together
NextSnapshot ==
    \/ \E body \in ConfigRateBodies : RatesReceive(body)
    \/ \E ok \in BOOLEAN : CacheGet(ok)
    \/ \E reply \in FoundVariantReplies : VariantFetch(reply)
    \/ \E reply \in FlagStatusReplies : StatusFetch(reply)
    \/ \E ok \in BOOLEAN : CacheSet(ok)
    \/ \E reply \in TidyGqlReplies(rv.uncached) : GqlFetch(reply)
    \/ \E ok \in BOOLEAN : CacheSetNode(ok)
    \/ \E ok \in BOOLEAN : CacheSetRest(ok)
    \/ RatesFinish
    \/ \E body \in SnapshotBodies : ConfigPost(body)

SpecSnapshot == Init /\ [][NextSnapshot]_vars

\* the admin interface of the two-hop variant, with rate requests filling the cache
NextAuth ==
    \/ \E req \in AdminReqs : AdminRequest(req)
    \/ AdminFinish
    \/ \E ok \in BOOLEAN : ClearDel(ok)
    \/ \E body \in ConfigRateBodies : RatesReceive(body)
    \/ CacheGet(TRUE)
    \/ \E reply \in FoundVariantReplies : VariantFetch(reply)
    \/ \E reply \in FlagStatusReplies : StatusFetch(reply)
    \/ CacheSet(TRUE)
    \/ RatesFinish

SpecAuth == InitTwoHop /\ [][NextAuth]_vars

\* the environment has a webhook secret or has none
InitHook ==
    /\ strategy \in {"twohop", "batch"}
    /\ appConfig = DefaultConfig
    /\ cache = EmptyCache
    /\ pc = "idle"
    /\ items = <<>>
    /\ rv = InitRv
    /\ resp = NoResponse
    /\ gh = InitGh
    /\ clr = ClrIdle
    /\ hook \in {HookIdle(TRUE), HookIdle(FALSE)}
    /\ adm = AdmIdle
    /\ obs = InitObs(FALSE)

\* product-update notifications beside the resolver
NextHook ==
    \/ \E body \in ResolveBodies : RatesReceive(body)
    \/ CacheGet(TRUE)
    \/ \E reply \in VariantReplies : VariantFetch(reply)
    \/ \E reply \in FlagStatusReplies : StatusFetch(reply)
    \/ CacheSet(TRUE)
    \/ \E reply \in TidyGqlReplies(rv.uncached) : GqlFetch(reply)
    \/ CacheSetNode(TRUE)
    \/ CacheSetRest(TRUE)
    \/ RatesFinish
    \/ \E req \in HookReqs : HookReceive(req)
    \/ \E ok \in BOOLEAN : HookDel(ok)

SpecHook == InitHook /\ [][NextHook]_vars

-----------------------------------------------------------------------------
(* What the properties compare the handler's results with *)

IdString(n) == CASE n = 1 -> "1" [] n = 2 -> "2" [] n = 3 -> "3"

RECURSIVE SumWhere(_, _, _)
\* the sum of price x quantity over the items at the positions of `at`
SumWhere(its, at, k) ==
    IF k > Len(its) THEN 0
    ELSE (IF k \in at THEN its[k].price * its[k].quantity ELSE 0) + SumWhere(its, at, k + 1)

\* positions of the items whose resolved status is true
PreOrderAt == {k \in 1..Len(items) :
                 /\ IdString(items[k].variant_id) \in DOMAIN rv.results
                 /\ rv.results[IdString(items[k].variant_id)] = TRUE}

ExpectedPo == SumWhere(items, PreOrderAt, 1)
ExpectedRts == SumWhere(items, (1..Len(items)) \ PreOrderAt, 1)
ExpectedTotal == SumWhere(items, 1..Len(items), 1)

\* the fees of the configurations posted, as strings
FeeString(fee) == CASE fee = 500 -> "500" [] fee = 750 -> "750" [] fee = 0 -> "0"

\* the line items of the inputs that are gift cards: product type 'Gift Card', or
\* the title "A Gift CARD"
ExpectedGiftCard(item) == item.product_type = "Gift Card" \/ item.title = TitleGiftUpper
AllGiftCards == \A k \in 1..Len(items) : ExpectedGiftCard(items[k])

Codes == {resp.rates[k].service_code : k \in 1..Len(resp.rates)}
QuotesOf(code) == {k \in 1..Len(resp.rates) : resp.rates[k].service_code = code}

\* a rate response computed from the resolver's map
Bucketed == pc = "done" /\ gh.returned

-----------------------------------------------------------------------------
(* Properties of the rate handler, checked under Spec *)

\* C1: a rate request received while the kill switch is on is answered with an
\* empty rates list, whatever its items are
C1_KillSwitchEmptiesRates ==
    (pc = "done" /\ gh.kill) => (resp.status = 200 /\ resp.hasRates /\ resp.rates = <<>>)

\* a gift-card-only cart and a cart over the threshold, both answered with no rates
\* because the kill switch is on
C1_Witness ==
    /\ pc = "done" /\ gh.kill /\ resp.rates = <<>>
    /\ Len(items) = 2 /\ ExpectedGiftCard(items[1]) /\ ExpectedTotal >= gh.cfg.threshold

\* C2: a bucket's quote costs "0" when the bucket's subtotal is at or over the
\* threshold and the fee, as a string, when it is under; each bucket by its own
\* subtotal
C2_BucketPrice ==
    Bucketed =>
        /\ \A k \in QuotesOf("RTS_STD") :
              resp.rates[k].total_price =
                  IF ExpectedRts >= gh.cfg.threshold THEN "0"
                  ELSE FeeString(gh.cfg.feeUnderThreshold)
        /\ \A k \in QuotesOf("PO_STD") :
              resp.rates[k].total_price =
                  IF ExpectedPo >= gh.cfg.threshold THEN "0"
                  ELSE FeeString(gh.cfg.feeUnderThreshold)

\* the ready-to-ship bucket pays the fee while the pre-order bucket, exactly at the
\* threshold, ships free
C2_Witness ==
    /\ Bucketed /\ Len(resp.rates) = 2
    /\ ExpectedRts < gh.cfg.threshold /\ ExpectedPo = gh.cfg.threshold
    /\ resp.rates[1].total_price = "500" /\ resp.rates[2].total_price = "0"

\* C3: every item is added to exactly one subtotal, the pre-order one when its
\* status is true and the ready-to-ship one otherwise
C3_Partition ==
    Bucketed =>
        /\ gh.sub.po = ExpectedPo
        /\ gh.sub.rts = ExpectedRts
        /\ gh.sub.rts + gh.sub.po = ExpectedTotal

\* a cart with one item in each bucket
C3_Witness ==
    /\ Bucketed /\ Len(items) = 2
    /\ PreOrderAt = {2} /\ ExpectedRts > 0 /\ ExpectedPo > 0

\* C4: a bucket has a quote exactly when its subtotal is greater than zero
C4_QuoteIffPositive ==
    Bucketed =>
        /\ (QuotesOf("RTS_STD") # {}) <=> (ExpectedRts > 0)
        /\ (QuotesOf("PO_STD") # {}) <=> (ExpectedPo > 0)

\* a cart whose only item has price 0 gets no rates
C4_Witness == Bucketed /\ Len(items) = 1 /\ ExpectedTotal = 0 /\ resp.rates = <<>>

\* C5: at most two quotes, at most one per service code, ready-to-ship before
\* pre-order
C5_AtMostTwoInOrder ==
    pc = "done" =>
        /\ Len(resp.rates) <= 2
        /\ \A code \in Codes : Cardinality(QuotesOf(code)) = 1
        /\ \A i \in QuotesOf("RTS_STD") : \A j \in QuotesOf("PO_STD") : i < j

\* a response with both quotes
C5_Witness ==
    /\ pc = "done" /\ Len(resp.rates) = 2
    /\ resp.rates[1].service_code = "RTS_STD" /\ resp.rates[2].service_code = "PO_STD"

\* C6: with the kill switch off, a non-empty cart gets the one GIFT_CARD_FREE quote
\* at "0" exactly when every item is a gift card; otherwise no such quote, and the
\* gift cards of the cart are in the subtotals like the other items
C6_GiftCardsOnly ==
    (pc = "done" /\ ~gh.kill /\ Len(items) > 0) =>
        /\ AllGiftCards <=>
              /\ Len(resp.rates) = 1
              /\ resp.rates[1].service_code = "GIFT_CARD_FREE"
              /\ resp.rates[1].total_price = "0"
        /\ ~AllGiftCards =>
              /\ "GIFT_CARD_FREE" \notin Codes
              /\ gh.returned
              /\ gh.sub.rts + gh.sub.po = ExpectedTotal

\* a cart of a gift card and a shirt: no gift-card quote, the gift card is bucketed
C6_Witness ==
    /\ Bucketed /\ ~gh.kill /\ Len(items) = 2
    /\ ExpectedGiftCard(items[1]) /\ ~ExpectedGiftCard(items[2])
    /\ 1 \in PreOrderAt /\ ExpectedPo = items[1].price * items[1].quantity

-----------------------------------------------------------------------------
(* Properties of the resolver, checked under SpecResolve *)

Requested == Range(rv.ids)

\* every cache write the request made went through and no POST /cache/clear
\* deleted the entry afterwards
WriteKept(variantId) == variantId \notin gh.writeErr \cup gh.inval

\* C7 as claimed: the map has an entry for each requested id and for no other id
C7_ExactlyTheRequestedIds == Bucketed => DOMAIN rv.results = Requested

\* C7: the map has an entry for each requested id; the two-hop resolver adds no
\* other id, the batch resolver adds only the ids of the nodes of the response;
\* when nothing was cached and the external source resolved nothing, every
\* requested id is false
C7_EveryRequestedId ==
    Bucketed =>
        /\ Requested \subseteq DOMAIN rv.results
        /\ strategy = "twohop" => DOMAIN rv.results = Requested
        /\ strategy = "batch" => DOMAIN rv.results = Requested \cup gh.nodeIds
        /\ (gh.hits = {} /\ DOMAIN gh.okval = {}) =>
               \A id \in Requested : rv.results[id] = FALSE

\* the batch resolver returns an entry for variant 3, which no item asked for,
\* beside the entry of the variant asked for
C7_Witness ==
    /\ Bucketed /\ strategy = "batch"
    /\ Requested = {"1"} /\ DOMAIN rv.results = {"1", "3"}

C9_ResolvedWrittenBack ==
    Bucketed =>
        \A id \in DOMAIN gh.okval :
            /\ id \in gh.wrote
            /\ WriteKept(id) =>
                   /\ rv.results[id] = gh.okval[id]
                   /\ cache[id] = Entry(JSONStringify(rv.results[id]), 86400)

\* C10: an id whose cache read failed is among the uncached ids, an external call
\* is made for it, and the handler answers 200 from the resolver's map
C10_ReadErrorIsMiss ==
    /\ gh.readErr \subseteq Range(rv.uncached)
    /\ (pc = "done" /\ gh.readErr # {}) =>
           /\ gh.returned
           /\ resp.status = 200
           /\ gh.readErr \subseteq gh.asked
           /\ gh.readErr \subseteq DOMAIN rv.results

\* the entry of variant 1 cannot be parsed and its read did not fail in Redis: the
\* variant was resolved and the request answered
C10_Witness ==
    /\ Bucketed /\ gh.readErr = {"1"} /\ "1" \in gh.asked
    /\ cache["1"] = Entry(Unparsable, 0)

\* the ids with a readable entry: every read of the id was answered, and with
\* the JSON of a boolean
Readable == (DOMAIN gh.had) \ gh.readErr

\* C23 as claimed: an id with a readable entry is returned with the cached value,
\* no external call and no cache write is made for it, and the external source is
\* asked about the other ids only
C23_CachedNotResolvedAgain ==
    Bucketed =>
        /\ \A id \in Readable :
               /\ rv.results[id] = gh.had[id]
               /\ id \notin gh.asked /\ id \notin gh.wrote
        /\ gh.asked \subseteq Requested \ Readable

\* C23: an id with a readable entry, true or false, is not among the ids the
\* external source is asked about, which are requested ids without a readable
\* entry; it is returned with the cached value and no cache write is made for it
\* in the two-hop resolver, and in the batch resolver unless the response has a
\* node with that id
C23_CachedNotAskedAgain ==
    Bucketed =>
        /\ \A id \in Readable :
               /\ id \in gh.hits
               /\ id \notin gh.asked
               /\ (strategy = "twohop" \/ id \notin gh.nodeIds) =>
                      /\ rv.results[id] = gh.had[id]
                      /\ id \notin gh.wrote
        /\ gh.asked \subseteq Requested \ Readable

\* variant 1 was answered from the cache with false and variant 2 by the external
\* source
C23_Witness ==
    /\ Bucketed /\ rv.ids = <<"1", "2">>
    /\ Readable = {"1"} /\ gh.had["1"] = FALSE /\ rv.results["1"] = FALSE
    /\ gh.asked = {"2"} /\ gh.wrote = {"2"}

\* the loop "Check cache first" of the batch resolver has ended
Partitioned == strategy = "batch" /\ (pc \in {"gqlFetch", "cacheSetNode", "cacheSetRest"} \/ Bucketed)

\* C24: the batch resolver sends no query while it reads the cache; after that it
\* has sent none if every read was a hit, and otherwise exactly one, whose ids are
\* the ids that missed: with the ids that hit they make up the requested ids, and
\* none of them has a readable entry
C24_AtMostOneBatchQuery ==
    /\ (strategy = "batch" /\ pc = "cacheGet") => gh.queries = <<>>
    /\ Partitioned =>
           /\ Len(gh.queries) <= 1
           /\ rv.uncached = <<>> => gh.queries = <<>>
           /\ rv.uncached # <<>> =>
                  /\ gh.queries = <<rv.uncached>>
                  /\ Range(gh.queries[1]) \cup gh.hits = Requested
                  /\ Range(gh.queries[1]) \cap Readable = {}

\* of two requested variants one was cached; one query was sent, for the other
C24_Witness ==
    /\ Partitioned /\ Bucketed
    /\ rv.ids = <<"1", "2">> /\ gh.hits = {"1"}
    /\ gh.queries = << <<"2">> >>

\* the response has a node for the variant whose metafield is there with the
\* value 'true'
HasTrueNode(nodes, id) ==
    \E k \in 1..Len(nodes) :
        /\ ~nodes[k].isNull /\ nodes[k].hasId /\ nodes[k].id = Gid(id)
        /\ nodes[k].metafield.present /\ nodes[k].metafield.value = "true"

\* C25: the batch resolver returns true for an uncached variant exactly when the
\* response has a node for it whose metafield is there with the value 'true'
C25_PreOrderIffTrueNode ==
    (Bucketed /\ strategy = "batch") =>
        \A id \in Range(rv.uncached) : rv.results[id] = HasTrueNode(gh.reply, id)

\* the ids the request asked the external source about and got an answer or a
\* failure for
FromSource ==
    DOMAIN gh.okval \cup gh.failed \cup (IF gh.threw THEN Range(rv.uncached) ELSE {})

\* the status the resolver returns for such an id, from what the source answered
StatusFromSource(id) ==
    IF gh.threw /\ id \in Range(rv.uncached) THEN FALSE
    ELSE IF id \in DOMAIN gh.okval THEN gh.okval[id]
    ELSE FALSE

ExpectedCodes ==
    (IF ExpectedRts > 0 THEN {"RTS_STD"} ELSE {}) \cup (IF ExpectedPo > 0 THEN {"PO_STD"} ELSE {})

\* C11: when a cache write of the request failed, the resolver's map still holds,
\* for that id and for every other id it resolved, the status the external source
\* gave, and the handler answers 200 with the rates of that map
C11_WriteErrorChangesNothing ==
    (pc = "done" /\ gh.writeErr # {}) =>
        /\ gh.returned
        /\ gh.writeErr \subseteq FromSource
        /\ \A id \in FromSource : rv.results[id] = StatusFromSource(id)
        /\ resp.status = 200
        /\ gh.sub.po = ExpectedPo /\ gh.sub.rts = ExpectedRts
        /\ Codes = ExpectedCodes

\* the write for variant 1 failed; variant 1 is pre-order in the map all the same,
\* variant 2 was resolved after it, and the response has both quotes
C11_Witness ==
    /\ Bucketed /\ gh.writeErr = {"1"} /\ rv.uncached = <<"1", "2">>
    /\ rv.results["1"] = TRUE /\ rv.results["2"] = FALSE
    /\ cache["1"] = NoEntry /\ cache["2"] = Entry("false", 86400)
    /\ Len(resp.rates) = 2

-----------------------------------------------------------------------------
(* Properties of the rate handler at the edges, checked under SpecEdge *)

\* the step in which the handler, kill switch off, receives a cart that is not of
\* gift cards only and has an item without variant_id
ReceivesItemWithoutVariantId ==
    /\ pc = "idle" /\ pc' # "idle"
    /\ ~gh'.kill /\ ~gh'.malformed
    /\ VariantIdThrows(items')
    /\ \E k \in 1..Len(items') : ~ExpectedGiftCard(items'[k])

\* C15: the TypeError of an item without variant_id is answered in the same step
\* with status 500 and an empty rates list, and the step changes neither the cache
\* nor the configuration
C15_ErrorAnsweredEmpty ==
    [][ReceivesItemWithoutVariantId =>
          /\ pc' = "done"
          /\ resp'.status = 500 /\ resp'.hasRates /\ resp'.rates = <<>>
          /\ cache' = cache /\ appConfig' = appConfig
          /\ gh'.asked = {} /\ gh'.wrote = {}]_vars

\* a cart of a shirt and an item without variant_id, answered 500 with no rates,
\* while variant 1 stays cached
C15_Witness ==
    /\ pc = "done" /\ ~gh.kill /\ Len(items) = 2
    /\ items[1].hasVariantId /\ ~items[2].hasVariantId
    /\ resp = Response(500, TRUE, <<>>)
    /\ cache["1"] # NoEntry

\* the request touched neither the cache nor an external source
NothingAsked ==
    /\ rv = InitRv
    /\ gh.hits = {} /\ gh.readErr = {} /\ gh.asked = {} /\ gh.wrote = {}
    /\ gh.queries = <<>> /\ gh.lookups = <<>> /\ gh.calls = <<>>

\* C16 as claimed: a body with no rate object or no items list is answered with a
\* 4xx status and an empty rates list, kill switch on or off, without a cache
\* access or an external call
C16_MalformedRejectedEmpty ==
    (pc = "done" /\ gh.malformed) =>
        /\ resp.status \in 400..499
        /\ resp.hasRates /\ resp.rates = <<>>
        /\ NothingAsked

\* C16: a body with no rate object or no items list is answered 400 without a
\* rates list when the kill switch is off, and 200 with an empty rates list when
\* it is on; either way without a cache access or an external call
C16_MalformedRejected ==
    (pc = "done" /\ gh.malformed) =>
        /\ ~gh.kill => (resp.status = 400 /\ ~resp.hasRates)
        /\ gh.kill => (resp.status = 200 /\ resp.hasRates /\ resp.rates = <<>>)
        /\ NothingAsked

\* a body with a rate object but no items list, rejected while variant 1 is cached
C16_Witness ==
    /\ pc = "done" /\ gh.malformed /\ ~gh.kill
    /\ resp = Response(400, FALSE, <<>>)
    /\ cache["1"] # NoEntry

\* C21: with the kill switch off, a request whose items list is there and empty is
\* answered 200 with an empty rates list
C21_EmptyCartEmptyRates ==
    (pc = "done" /\ ~gh.kill /\ ~gh.malformed /\ items = <<>>)
        => resp = Response(200, TRUE, <<>>)

\* an empty cart has been answered while the kill switch was off
C21_Witness ==
    /\ pc = "done" /\ ~gh.kill /\ ~gh.malformed /\ items = <<>>
    /\ resp.rates = <<>> /\ resp.status = 200
    /\ ~appConfig.killSwitch

\* the step in which the handler receives a request while the kill switch is on,
\* or one with an items list that is empty or holds gift cards only
ReceivesShortCircuit ==
    /\ pc = "idle" /\ pc' # "idle"
    /\ \/ appConfig.killSwitch
       \/ /\ ~gh'.malformed
          /\ \A k \in 1..Len(items') : ExpectedGiftCard(items'[k])

\* C27: a request short-circuited by the kill switch, an empty items list or a
\* cart of gift cards only is answered in the step that receives it, which makes
\* no cache read, no cache write and no external call and leaves the cache and
\* the configuration as they were
C27_ShortCircuitTouchesNothing ==
    [][ReceivesShortCircuit =>
          /\ pc' = "done"
          /\ cache' = cache /\ appConfig' = appConfig
          /\ rv' = InitRv
          /\ gh'.hits = {} /\ gh'.readErr = {} /\ gh'.asked = {} /\ gh'.wrote = {}
          /\ gh'.queries = <<>> /\ gh'.lookups = <<>> /\ gh'.calls = <<>>]_vars

\* a cart of one gift card has been answered with the gift-card quote while the
\* cache holds an entry for variant 1
C27_Witness ==
    /\ pc = "done" /\ ~gh.kill /\ ~gh.malformed
    /\ Len(items) = 1 /\ ExpectedGiftCard(items[1])
    /\ Len(resp.rates) = 1 /\ resp.rates[1].service_code = "GIFT_CARD_FREE"
    /\ NothingAsked
    /\ cache["1"] # NoEntry

\* C28: a response sent while the kill switch is on, the request having been
\* received before or after the update that put it on, has no quote
C28_NoQuoteOnceKilled ==
    (pc = "done" /\ gh.cfg.killSwitch) => resp.rates = <<>>

\* the response the handler gives when it reads all of the configuration at
\* the instant it is cfg
ResponseUnder(cfg) ==
    IF cfg.killSwitch THEN Response(200, TRUE, <<>>)
    ELSE Response(200, TRUE, BuildRates(Subtotals(items, rv.results), cfg))

\* C29: a computed response is the response under the configuration of one
\* instant between the receipt of the request and its answer, kill switch,
\* threshold, fee, labels, description and currency all taken at that instant
C29_OneSnapshot ==
    Bucketed => \E cfg \in gh.seen : resp = ResponseUnder(cfg)

\* C14: a rate request that has entered the resolver is answered in the end,
\* whatever the cache and the external sources do, a source that never answers
\* included
C14_EveryRequestAnswered == (pc \notin {"idle", "done"}) ~> (pc = "done")

-----------------------------------------------------------------------------
(* Properties of repeated rate requests, checked under SpecRepeat *)

\* the request being answered was computed from the items, the statuses and the
\* configuration of the remembered one
SameAsRemembered ==
    /\ pc = "done" /\ gh.returned
    /\ obs.memo.set
    /\ items = obs.memo.items
    /\ StatusesOf(rv) = obs.memo.statuses
    /\ gh.cfg = obs.memo.cfg

-----------------------------------------------------------------------------
(* Properties of the configuration, checked under SpecConfig *)

ConfigFields == {"threshold", "feeUnderThreshold", "rts", "po", "description", "killSwitch"}

\* the update carries the field
Supplies(body, field) ==
    CASE field = "threshold" -> body.hasThreshold
      [] field = "feeUnderThreshold" -> body.hasFee
      [] field = "rts" -> body.hasLabels /\ body.labels.hasRts
      [] field = "po" -> body.hasLabels /\ body.labels.hasPo
      [] field = "description" -> body.hasDescription
      [] field = "killSwitch" -> body.hasKillSwitch

Given(body, field) ==
    CASE field = "threshold" -> body.threshold
      [] field = "feeUnderThreshold" -> body.feeUnderThreshold
      [] field = "rts" -> body.labels.rts
      [] field = "po" -> body.labels.po
      [] field = "description" -> body.description
      [] field = "killSwitch" -> body.killSwitch

FieldOf(cfg, field) ==
    CASE field = "rts" -> cfg.labels.rts
      [] field = "po" -> cfg.labels.po
      [] OTHER -> cfg[field]

\* the value of the field after the updates of the log: that of the last update
\* that carries it, the default if none does
LastGiven(log, field) ==
    LET supplying == {k \in 1..Len(log) : Supplies(log[k], field)}
    IN  IF supplying = {} THEN FieldOf(DefaultConfig, field)
        ELSE Given(log[CHOOSE k \in supplying : \A j \in supplying : j <= k], field)

LastWriterWins(cfg, log) ==
    /\ \A field \in ConfigFields : FieldOf(cfg, field) = LastGiven(log, field)
    /\ cfg.currency = DefaultConfig.currency
    /\ DOMAIN cfg = DOMAIN DefaultConfig
    /\ DOMAIN cfg.labels = DOMAIN DefaultConfig.labels

\* C19: after any sequence of POST /config requests every field of the
\* configuration, each label included, has the value of the last update that
\* supplied it, or its default; the currency is the default; and what GET /config
\* answered is that state as it was when the request was made
C19_LastWriterWinsPerField ==
    /\ LastWriterWins(appConfig, obs.log)
    /\ obs.got.at >= 0 => LastWriterWins(obs.got.cfg, SubSeq(obs.log, 1, obs.got.at))

\* three updates: the threshold given twice with different values, then an update
\* of one label only; GET /config has answered after them
C19_Witness ==
    /\ Len(obs.log) = 3
    /\ obs.log[1].hasThreshold /\ obs.log[2].hasThreshold
    /\ obs.log[1].threshold # obs.log[2].threshold
    /\ ~obs.log[3].hasThreshold
    /\ obs.log[3].hasLabels /\ obs.log[3].labels.hasRts /\ ~obs.log[3].labels.hasPo
    /\ obs.got.at = 3
    /\ obs.got.cfg.threshold = obs.log[2].threshold
    /\ obs.got.cfg.labels.po = DefaultConfig.labels.po

-----------------------------------------------------------------------------
(* Properties of the cache entries' lifetime, checked under SpecTime *)

\* the time since the last write of the key that went through
AgeSeconds(variantId) == (obs.now - obs.at[variantId]) * TickSeconds

\* the lookup of the loop "Check cache first" that is being answered
LookupAnswered == pc = "cacheGet" /\ rv'.i = rv.i + 1

\* C17: a lookup of a key written 24 hours ago or earlier is a miss and the variant
\* is queued for the external source; a lookup that Redis answers less than 24
\* hours after the write is a hit with the status written
C17_EntryLivesFor24Hours ==
    [][LookupAnswered /\ obs.at[rv.ids[rv.i]] >= 0 =>
          LET variantId == rv.ids[rv.i]
          IN  IF AgeSeconds(variantId) >= CACHE_TTL
              THEN rv'.uncached = Append(rv.uncached, variantId)
              ELSE variantId \notin gh'.readErr =>
                       /\ rv'.uncached = rv.uncached
                       /\ variantId \in gh'.hits
                       /\ rv'.results[variantId] = obs.val[variantId]]_vars

\* an entry written by an earlier request has outlived its 24 hours: its variant
\* was looked up, missed, and resolved again from the external source, which now
\* gives the other status
C17_Witness ==
    /\ pc = "cacheSet"
    /\ rv.ids = <<"1">>
    /\ obs.at["1"] = 0 /\ obs.val["1"] = TRUE
    /\ obs.now = TicksPerTtl
    /\ rv.pend = Pend("1", FALSE)

-----------------------------------------------------------------------------
(* Properties of the product-update webhook, checked under SpecHook *)

\* the variant ids the notification's body lists, as cache keys
IdsOfProduct(product) == {IdString(product.variants[k]) : k \in 1..Len(product.variants)}

HookListed ==
    IF hook.req.kind = "object" THEN IdsOfProduct(hook.req.product)
    ELSE IF hook.req.kind = "array" /\ Len(hook.req.elems) = 1 /\ hook.req.elems[1].isJson
    THEN IdsOfProduct(hook.req.elems[1].product)
    ELSE {}

\* the notification is the JSON of a product or wraps one, and its HMAC header is
\* the HMAC of its body under the secret the environment has
HookSigned ==
    /\ hook.secret /\ hook.req.isJsonType /\ hook.req.hmac = "valid"
    /\ hook.req.kind \in {"object", "array"}

\* the body is no JSON, or holds no JSON of a product
HookMalformed ==
    \/ hook.req.kind = "garbage"
    \/ hook.req.kind = "array" /\ ~hook.req.elems[1].isJson

\* C12: a notification with a valid signature is answered 200 after a redis.del
\* was made for every variant it lists, whether or not an earlier one failed; when
\* every redis.del went through and no rate request is in flight, no listed
\* variant has an entry
C12_VerifiedDeletesAll ==
    (hook.pc = "done" /\ HookSigned) =>
        /\ hook.status = 200
        /\ HookListed \subseteq hook.dels
        /\ (hook.delErr = {} /\ pc \in {"idle", "done"}) =>
               \A id \in HookListed : cache[id] = NoEntry

\* C13 as claimed: a notification that does not verify (a wrong, short or missing
\* HMAC header, or no secret to verify against) or whose body is malformed makes
\* no redis.del
C13_UnverifiedNoEffect ==
    (hook.pc # "idle" /\ (~hook.secret \/ hook.req.hmac # "valid" \/ HookMalformed)) =>
        hook.dels = {}

\* C13: with a secret in the environment, a notification whose HMAC header is
\* wrong, short or missing makes no redis.del and is answered with an error; so
\* does a notification whose body is malformed, with or without a secret
C13_UnverifiedWithSecretNoEffect ==
    (hook.pc # "idle" /\ ((hook.secret /\ hook.req.hmac # "valid") \/ HookMalformed)) =>
        /\ hook.pc = "done"
        /\ hook.dels = {}
        /\ hook.status \in {401, 500}

\* variant 1 is cached, and a notification that lists it under a wrong HMAC header
\* has been answered without touching the entry
C13_Witness ==
    /\ hook.pc = "done" /\ hook.secret /\ hook.req.hmac = "wrong"
    /\ "1" \in HookListed /\ cache["1"] # NoEntry
    /\ hook.status = 500 /\ hook.dels = {}

\* C18: when the rate request and the notification have both been answered, and
\* every redis.del went through, the cache holds no entry for a variant whose
\* status the request read before the notification that lists it was received
C18_NoStatusFromBeforeTheNotification ==
    (pc = "done" /\ hook.pc = "done" /\ hook.status = 200 /\ hook.delErr = {}) =>
        \A id \in gh.old \cap hook.dels : cache[id] = NoEntry

-----------------------------------------------------------------------------
(* Frame of the product-update webhook, checked under SpecHook *)

\* a step of the webhook handler
HookStep == hook' # hook

\* C22: a step of the webhook handler leaves the configuration alone, changes a
\* cache entry only by removing it and only if its variant is listed in the
\* notification being handled, and makes no external call and no step of a rate
\* request
C22_HookOnlyDeletesListed ==
    [][HookStep =>
          /\ appConfig' = appConfig
          /\ \A k \in VariantStrs :
                 cache'[k] # cache[k] => (cache'[k] = NoEntry /\ k \in HookListed)
          /\ pc' = pc /\ rv' = rv
          /\ gh'.asked = gh.asked /\ gh'.wrote = gh.wrote]_vars

\* a notification that lists variant 1 only has been handled: the entry of 1 is
\* gone, the entry of 2 is still there
C22_Witness ==
    /\ hook.pc = "done" /\ hook.status = 200
    /\ HookListed = {"1"} /\ hook.dels = {"1"} /\ hook.delErr = {}
    /\ cache["1"] = NoEntry /\ cache["2"] # NoEntry

-----------------------------------------------------------------------------
(* Properties of the two-hop resolver, checked under SpecTwoHop *)

FoundLookup(l) == l.found

CallOf(l) == StatusCall(l.productId, l.variantId)

\* the calls the lookups answered so far give rise to: one for each lookup that
\* found a product id, in the order of the lookups
CallsDue(lookups) ==
    LET found == SelectSeq(lookups, FoundLookup)
    IN  [k \in 1..Len(found) |-> CallOf(found[k])]

\* the last lookup of the variant found no product id
LastLookupFailed(id) ==
    \E k \in 1..Len(gh.lookups) :
        /\ gh.lookups[k].variantId = id /\ ~gh.lookups[k].found
        /\ \A j \in (k + 1)..Len(gh.lookups) : gh.lookups[j].variantId # id

\* C26: the status service has been called once for each lookup that found a
\* product id, in the order of the lookups, for the variant looked up and with the
\* product id found (the call for the last lookup may still be waiting); when the
\* resolver returns, every uncached variant has been looked up, in order, and a
\* variant whose last lookup failed is false
C26_StatusAfterLookup ==
    strategy = "twohop" =>
        /\ IF pc = "statusFetch"
           THEN /\ gh.calls \o <<StatusCall(rv.productId, rv.uncached[rv.j])>>
                       = CallsDue(gh.lookups)
           ELSE gh.calls = CallsDue(gh.lookups)
        /\ Bucketed =>
               /\ Len(gh.lookups) = Len(rv.uncached)
               /\ \A k \in 1..Len(rv.uncached) : gh.lookups[k].variantId = rv.uncached[k]
               /\ \A id \in Range(rv.uncached) : LastLookupFailed(id) => rv.results[id] = FALSE

\* the lookup of variant 1 failed and no call was made for it; the lookup of
\* variant 2 then found product p2, and the status service, called with p2 and
\* variant 2, said true
C26_Witness ==
    /\ Bucketed /\ rv.uncached = <<"1", "2">>
    /\ ~gh.lookups[1].found
    /\ gh.calls = <<StatusCall("p2", "2")>>
    /\ rv.results["1"] = FALSE /\ rv.results["2"] = TRUE

-----------------------------------------------------------------------------
(* Properties of the admin interface, checked under SpecAuth *)

\* the text is the admin's user-id, a colon, and the admin's password: the
\* user-id ends at the first colon, the password is all that follows it
ValidCredentials(auth) ==
    /\ auth.present /\ auth.basic
    /\ \E k \in 1..Len(auth.text) :
           /\ auth.text[k] = ":"
           /\ \A j \in 1..(k - 1) : auth.text[j] # ":"
           /\ SubSeq(auth.text, 1, k - 1) = adminUsername
           /\ SubSeq(auth.text, k + 1, Len(auth.text)) = adminPassword

\* C30: a request to a path outside the public prefixes that does not carry the
\* admin's credentials is answered 401 and changes neither the configuration nor
\* the cache, nor starts a clearing of the cache
C30_NoEffectWithoutCredentials ==
    [][(/\ adm.pc = "idle" /\ adm'.pc = "done"
        /\ ~IsPublicPath(adm'.req.path)
        /\ ~ValidCredentials(adm'.req.auth)) =>
          /\ adm'.status = 401
          /\ appConfig' = appConfig /\ cache' = cache /\ clr' = clr]_vars

=============================================================================
